---- MODULE Spec2Model ----
(***************************************************************************)
(* kg-gen extraction steps: get_entities (steps/_1_get_entities.py) and    *)
(* get_relations (steps/_2_get_relations.py).  One behaviour is one call   *)
(* of one of the two functions: the model call raises or returns a list    *)
(* of items, the items are processed one loop iteration at a time, and     *)
(* the function returns (or an exception leaves it).                       *)
(***************************************************************************)
EXTENDS Integers, Sequences, FiniteSets, TLC

\* Longest list of items the model call returns.
MaxItems == 2

----------------------------------------------------------------------------
\* Python values.  A str is itself; the other values an item can hold are
\* tagged.  Absent is not a value: it marks a key the dict does not have.
Absent == "<absent>"
PyNone == "<None>"
PyInt == "<int>"
PyList == "<list>"

IsStr(v) == v \notin {Absent, PyNone, PyInt, PyList}
\* bool(v), with a missing key read through .get() as None
Truthy(v) == v \notin {Absent, PyNone, ""}
\* hash(v) succeeds: a list is the unhashable value
Hashable(v) == v # PyList

\* Optional[...]: None or a value
NoneVal == [some |-> FALSE, val |-> <<>>]
Some(x) == [some |-> TRUE, val |-> x]
\* `if node_types:` / `if edge_types:`: None and the empty list are falsy
ListTruthy(opt) == opt.some /\ Len(opt.val) > 0

Range(s) == {s[k] : k \in 1..Len(s)}
SeqsUpTo(S, n) == UNION {[1..k -> S] : k \in 0..n}

\* dict assignment d[k] = v
EmptyDict == [k \in {} |-> ""]
Put(d, k, v) == [x \in (DOMAIN d) \cup {k} |-> IF x = k THEN v ELSE d[x]]

----------------------------------------------------------------------------
\* The inputs of a call and the items a model call can return.
NodeTypeOpts == {NoneVal, Some(<<>>), Some(<<"Person">>)}
EdgeTypeOpts == {NoneVal, Some(<<>>), Some(<<"Social">>)}
EntityLists == {<<>>, <<"Alice", "Bob">>}

\* result.entities: dicts with or without the keys "entity" and "type", and
\* an item that is no dict (a bare string)
EntityDicts ==
  [isdict : {TRUE}, entity : {Absent, "Alice", "XYZ", PyNone, PyList},
   type : {Absent, "", "Person", "Robot"}]
EntityItems ==
  EntityDicts \cup {[isdict |-> FALSE, entity |-> Absent, type |-> Absent]}

RelDict(s, p, o, t) ==
  [isdict |-> TRUE, subject |-> s, predicate |-> p, object |-> o,
   predicate_type |-> t]
\* result.relations: well-formed triples over known and unknown entities,
\* and the malformed items: a missing key, a non-str value, no dict
RelationItems ==
  {RelDict(so[1], p, so[2], t) :
     so \in {<<"Alice", "Bob">>, <<"Alice", "Carol">>, <<"Carol", "Bob">>},
     p \in {"knows", "likes"}, t \in {Absent, "", "Social", "Spy"}}
  \cup {RelDict(Absent, "knows", "Bob", "Social"),
        RelDict("Alice", Absent, "Bob", "Social"),
        RelDict("Alice", "knows", Absent, "Social"),
        RelDict(PyInt, "knows", "Bob", "Social"),
        RelDict("Alice", "knows", "Bob", PyInt),
        [isdict |-> FALSE, subject |-> Absent, predicate |-> Absent,
         object |-> Absent, predicate_type |-> Absent]}

----------------------------------------------------------------------------
VARIABLES
  fn,          \* the function called
  node_types,  \* get_entities: the allowed entity types
  edge_types,  \* get_relations: the allowed predicate types
  entities,    \* get_relations: the input entity list
  outcome,     \* the model call: "pending", "raise" or "return"
  response,    \* result.entities / result.relations
  i,           \* the next item of the for loop
  st,          \* the locals: the list, the type dict, warnings issued
  pc,          \* "call", "loop", "done"
  ret          \* what the caller gets

vars == <<fn, node_types, edge_types, entities, outcome, response, i, st, pc, ret>>

Pending == [kind |-> "pending", list |-> <<>>, map |-> NoneVal]
Returned(l, m) == [kind |-> "returned", list |-> l, map |-> m]
Raised == [kind |-> "raised", list |-> <<>>, map |-> NoneVal]

\* entities = [] / relations = [], entity_types = {} / edge_type_map = {}
InitLocals == [list |-> <<>>, map |-> EmptyDict, warnings |-> 0, raised |-> FALSE]

Init ==
  /\ fn \in {"get_entities", "get_relations"}
  /\ node_types \in (IF fn = "get_entities" THEN NodeTypeOpts ELSE {NoneVal})
  /\ edge_types \in (IF fn = "get_relations" THEN EdgeTypeOpts ELSE {NoneVal})
  /\ entities \in (IF fn = "get_relations" THEN EntityLists ELSE {<<>>})
  /\ outcome = "pending"
  /\ response = <<>>
  /\ i = 1
  /\ st = InitLocals
  /\ pc = "call"
  /\ ret = Pending

----------------------------------------------------------------------------
\* get_entities, typed: one iteration of `for item in result.entities`.

\* item["entity"]: a TypeError on an item that is no dict, a KeyError on a
\* dict without the key.  Nothing here raises a ValidationError.
LookupEntity(item) ==
  IF ~item.isdict THEN "TypeError"
  ELSE IF item.entity = Absent THEN "KeyError"
  ELSE "ok"

\* the except clauses: ValidationError warns and continues, any other
\* exception continues without a warning
OnLookupError(s, err) ==
  IF err = "ValidationError" THEN [s EXCEPT !.warnings = @ + 1] ELSE s

SetEntityType_First(d, k, v) == IF k \in DOMAIN d THEN d ELSE Put(d, k, v)
\* entity_types[entity] = item["type"]
SetEntityType(d, k, v) == Put(d, k, v)

EntityStep_AppendUntyped(s, item) ==
  IF LookupEntity(item) # "ok" THEN OnLookupError(s, LookupEntity(item))
  ELSE IF Truthy(item.type)
       THEN IF Hashable(item.entity)
            THEN [s EXCEPT !.map = SetEntityType(@, item.entity, item.type)]
            ELSE [s EXCEPT !.raised = TRUE]
       ELSE [s EXCEPT !.list = Append(@, item.entity)]
EntityStep_Dedup(s, item) ==
  IF LookupEntity(item) # "ok" THEN OnLookupError(s, LookupEntity(item))
  ELSE LET appended ==
             IF item.entity \in Range(s.list) THEN s
             ELSE [s EXCEPT !.list = Append(@, item.entity)]
       IN IF Truthy(item.type)
          THEN IF Hashable(item.entity)
               THEN [appended EXCEPT
                       !.map = SetEntityType(@, item.entity, item.type)]
               ELSE [appended EXCEPT !.raised = TRUE]
          ELSE appended
\* The loop body.  The dict assignment is outside the try: an unhashable
\* entity with a truthy type raises a TypeError that leaves the function.
EntityStep(s, item) ==
  IF LookupEntity(item) # "ok" THEN OnLookupError(s, LookupEntity(item))
  ELSE LET appended == [s EXCEPT !.list = Append(@, item.entity)]
       IN IF Truthy(item.type)
          THEN IF Hashable(item.entity)
               THEN [appended EXCEPT
                       !.map = SetEntityType(@, item.entity, item.type)]
               ELSE [appended EXCEPT !.raised = TRUE]
          ELSE appended

----------------------------------------------------------------------------
\* get_relations: one iteration of `for item in result.relations`.

\* Relation(**item) / RelationWithType(**item): a TypeError on an item that
\* is no mapping; a ValidationError when subject, predicate or object is
\* missing or no str, or (typed schema) predicate_type is neither None nor
\* a str.  The plain schema ignores an extra predicate_type key.
ValidateRelation(item, typed) ==
  IF ~item.isdict THEN "TypeError"
  ELSE IF ~(IsStr(item.subject) /\ IsStr(item.predicate) /\ IsStr(item.object))
       THEN "ValidationError"
  ELSE IF typed /\ ~(IsStr(item.predicate_type)
                     \/ item.predicate_type \in {Absent, PyNone})
       THEN "ValidationError"
  ELSE "ok"

OnInvalidRelation_Propagate(s, err) == [s EXCEPT !.raised = TRUE]
\* the except clauses of the relation loop
OnInvalidRelation(s, err) ==
  IF err = "ValidationError" THEN [s EXCEPT !.warnings = @ + 1] ELSE s

Kept_Either(subject, object, ents) ==
  subject \in Range(ents) \/ object \in Range(ents)
\* rel.subject in entities and rel.object in entities
Kept(subject, object, ents) ==
  subject \in Range(ents) /\ object \in Range(ents)

\* edge_type_map[rel.predicate] = rel.predicate_type
SetEdgeType(d, k, v) == Put(d, k, v)

RelationStep_TypeBeforeFilter(s, item, ents, etypes) ==
  LET v == ValidateRelation(item, ListTruthy(etypes)) IN
  IF v # "ok" THEN OnInvalidRelation(s, v)
  ELSE LET typedS ==
             IF ListTruthy(etypes) /\ Truthy(item.predicate_type)
             THEN [s EXCEPT !.map =
                     SetEdgeType(@, item.predicate, item.predicate_type)]
             ELSE s
       IN IF Kept(item.subject, item.object, ents)
          THEN [typedS EXCEPT !.list =
                  Append(@, <<item.subject, item.predicate, item.object>>)]
          ELSE typedS
\* The loop body.
RelationStep(s, item, ents, etypes) ==
  LET v == ValidateRelation(item, ListTruthy(etypes)) IN
  IF v # "ok" THEN OnInvalidRelation(s, v)
  ELSE IF Kept(item.subject, item.object, ents)
       THEN LET appended ==
                  [s EXCEPT !.list =
                     Append(@, <<item.subject, item.predicate, item.object>>)]
            IN IF ListTruthy(etypes) /\ Truthy(item.predicate_type)
               THEN [appended EXCEPT !.map =
                       SetEdgeType(@, item.predicate, item.predicate_type)]
               ELSE appended
       ELSE s

----------------------------------------------------------------------------
\* The whole loops, as functions of the list of items: the loop stops at
\* the first exception that leaves the function.
RECURSIVE EntitiesFold(_, _)
EntitiesFold(s, items) ==
  IF items = <<>> \/ s.raised THEN s
  ELSE EntitiesFold(EntityStep(s, Head(items)), Tail(items))

RECURSIVE RelationsFold(_, _, _, _)
RelationsFold(s, items, ents, etypes) ==
  IF items = <<>> \/ s.raised THEN s
  ELSE RelationsFold(RelationStep(s, Head(items), ents, etypes),
                     Tail(items), ents, etypes)

\* return entities, entity_types
EntitiesResult(s) ==
  IF s.raised THEN Raised ELSE Returned(s.list, Some(s.map))
\* return relations, (edge_type_map if edge_types else None)
RelationsResult(s, etypes) ==
  IF s.raised THEN Raised
  ELSE Returned(s.list, IF ListTruthy(etypes) THEN Some(s.map) ELSE NoneVal)

----------------------------------------------------------------------------
\* The steps of a call.

EntitiesCallRaises_NoWarning ==
  /\ pc = "call" /\ fn = "get_entities"
  /\ outcome' = "raise"
  /\ ret' = Returned(<<>>, NoneVal)
  /\ pc' = "done"
  /\ UNCHANGED <<fn, node_types, edge_types, entities, response, i, st>>
\* except Exception: warnings.warn(...); return [], None
EntitiesCallRaises ==
  /\ pc = "call" /\ fn = "get_entities"
  /\ outcome' = "raise"
  /\ st' = [st EXCEPT !.warnings = @ + 1]
  /\ ret' = Returned(<<>>, NoneVal)
  /\ pc' = "done"
  /\ UNCHANGED <<fn, node_types, edge_types, entities, response, i>>

\* result = extractor(**params); untyped: return result.entities, None
EntitiesCallReturns ==
  /\ pc = "call" /\ fn = "get_entities"
  /\ outcome' = "return"
  /\ \E r \in SeqsUpTo(EntityItems, MaxItems) :
       /\ response' = r
       /\ IF ListTruthy(node_types)
          THEN pc' = "loop" /\ ret' = ret
          ELSE pc' = "done" /\ ret' = Returned(r, NoneVal)
  /\ UNCHANGED <<fn, node_types, edge_types, entities, i, st>>

EntitiesLoop ==
  /\ pc = "loop" /\ fn = "get_entities"
  /\ i <= Len(response)
  /\ st' = EntityStep(st, response[i])
  /\ i' = i + 1
  /\ IF st'.raised
     THEN pc' = "done" /\ ret' = Raised
     ELSE UNCHANGED <<pc, ret>>
  /\ UNCHANGED <<fn, node_types, edge_types, entities, outcome, response>>

EntitiesReturn ==
  /\ pc = "loop" /\ fn = "get_entities"
  /\ i > Len(response)
  /\ ret' = EntitiesResult(st)
  /\ pc' = "done"
  /\ UNCHANGED <<fn, node_types, edge_types, entities, outcome, response, i, st>>

\* except Exception: warnings.warn(...); return [], None
RelationsCallRaises ==
  /\ pc = "call" /\ fn = "get_relations"
  /\ outcome' = "raise"
  /\ st' = [st EXCEPT !.warnings = @ + 1]
  /\ ret' = Returned(<<>>, NoneVal)
  /\ pc' = "done"
  /\ UNCHANGED <<fn, node_types, edge_types, entities, response, i>>

\* result = extractor(**params); relations = []; edge_type_map = {}
RelationsCallReturns ==
  /\ pc = "call" /\ fn = "get_relations"
  /\ outcome' = "return"
  /\ \E r \in SeqsUpTo(RelationItems, MaxItems) : response' = r
  /\ pc' = "loop"
  /\ UNCHANGED <<fn, node_types, edge_types, entities, i, st, ret>>

RelationsLoop ==
  /\ pc = "loop" /\ fn = "get_relations"
  /\ i <= Len(response)
  /\ st' = RelationStep(st, response[i], entities, edge_types)
  /\ i' = i + 1
  /\ IF st'.raised
     THEN pc' = "done" /\ ret' = Raised
     ELSE UNCHANGED <<pc, ret>>
  /\ UNCHANGED <<fn, node_types, edge_types, entities, outcome, response>>

RelationsReturn ==
  /\ pc = "loop" /\ fn = "get_relations"
  /\ i > Len(response)
  /\ ret' = RelationsResult(st, edge_types)
  /\ pc' = "done"
  /\ UNCHANGED <<fn, node_types, edge_types, entities, outcome, response, i, st>>

Next ==
  \/ EntitiesCallRaises
  \/ EntitiesCallReturns
  \/ EntitiesLoop
  \/ EntitiesReturn
  \/ RelationsCallRaises
  \/ RelationsCallReturns
  \/ RelationsLoop
  \/ RelationsReturn

Spec == Init /\ [][Next]_vars

----------------------------------------------------------------------------
\* What the properties below speak of.

TypedEntitiesReturned ==
  /\ fn = "get_entities" /\ pc = "done" /\ outcome = "return"
  /\ node_types.some /\ Len(node_types.val) > 0
  /\ ret.kind = "returned"

RelationsReturned ==
  /\ fn = "get_relations" /\ pc = "done" /\ outcome = "return"
  /\ ret.kind = "returned"

EdgeTypesSupplied == edge_types.some /\ Len(edge_types.val) > 0

\* an item with an entity field
HasEntityField(item) == item.isdict /\ item.entity # Absent
\* an item missing a required field
MissingEntityField(item) == item.isdict /\ item.entity = Absent
MissingRelationField(item) ==
  item.isdict /\ Absent \in {item.subject, item.predicate, item.object}

\* a relation item that passes validation and the entity filter
KeptRelation(item) ==
  /\ item.isdict
  /\ IsStr(item.subject) /\ IsStr(item.predicate) /\ IsStr(item.object)
  /\ EdgeTypesSupplied =>
       (IsStr(item.predicate_type) \/ item.predicate_type \in {Absent, PyNone})
  /\ item.subject \in Range(entities) /\ item.object \in Range(entities)

\* the items that give a type to a key of the returned mapping
EntityTypeGivers(e) ==
  {k \in 1..Len(response) :
     /\ HasEntityField(response[k]) /\ response[k].entity = e
     /\ response[k].type \notin {Absent, PyNone, ""}}
EdgeTypeGivers(p) ==
  {k \in 1..Len(response) :
     /\ KeptRelation(response[k]) /\ response[k].predicate = p
     /\ response[k].predicate_type \notin {Absent, PyNone, ""}}
Last(S) == CHOOSE k \in S : \A j \in S : j <= k

Alice_knows(o, t) == RelDict("Alice", "knows", o, t)
EntityDict(e, t) == [isdict |-> TRUE, entity |-> e, type |-> t]

----------------------------------------------------------------------------
\* C1: every triple get_relations returns has its subject and its object
\* both in the input entity list; no triple referencing an unknown entity
\* is returned, in typed and untyped mode alike.
RelationsReferenceKnownEntities ==
  (fn = "get_relations" /\ pc = "done" /\ ret.kind = "returned") =>
    \A k \in 1..Len(ret.list) :
      ret.list[k][1] \in Range(entities) /\ ret.list[k][3] \in Range(entities)

\* the spec's scenario: Alice-knows-Bob is kept, Alice-knows-Carol is not
UnknownObjectDropped ==
  /\ RelationsReturned
  /\ entities = <<"Alice", "Bob">>
  /\ response = <<Alice_knows("Bob", Absent), Alice_knows("Carol", Absent)>>
  /\ ret.list = << <<"Alice", "knows", "Bob">> >>

\* C2: when the model call raises, get_entities and get_relations return an
\* empty list and a None mapping with exactly one warning issued and no item
\* processed.
CallFailureReturnsEmpty ==
  (pc = "done" /\ outcome = "raise") =>
    /\ ret = Returned(<<>>, NoneVal)
    /\ st.warnings = 1
    /\ i = 1 /\ st.list = <<>> /\ st.map = EmptyDict

TypedEntitiesCallFailed ==
  /\ fn = "get_entities" /\ ListTruthy(node_types)
  /\ pc = "done" /\ outcome = "raise"
  /\ ret = Returned(<<>>, NoneVal) /\ st.warnings = 1

\* C3: in typed get_entities, every key of the returned entity-to-type
\* mapping appears in the returned entity list.
TypedEntitiesAreListed ==
  TypedEntitiesReturned => (DOMAIN ret.map.val) \subseteq Range(ret.list)

TwoTypedEntitiesReturned ==
  /\ TypedEntitiesReturned
  /\ DOMAIN ret.map.val = {"Alice", "XYZ"}
  /\ ret.list = <<"XYZ", "Alice">>

\* C4: an item missing a required field is dropped without aborting the
\* loop: the result is the result on the same list with those items removed.
MissingFieldItemsAreDropped ==
  (pc = "done" /\ outcome = "return") =>
    /\ (fn = "get_entities" /\ ListTruthy(node_types)) =>
         ret = EntitiesResult(EntitiesFold(InitLocals,
                 SelectSeq(response, LAMBDA it : ~MissingEntityField(it))))
    /\ fn = "get_relations" =>
         ret = RelationsResult(RelationsFold(InitLocals,
                 SelectSeq(response, LAMBDA it : ~MissingRelationField(it)),
                 entities, edge_types), edge_types)

ValidAfterInvalidProcessed ==
  /\ RelationsReturned
  /\ Len(response) = 2
  /\ MissingRelationField(response[1])
  /\ response[2] = Alice_knows("Bob", "Social")
  /\ ret.list = << <<"Alice", "knows", "Bob">> >>

\* C5: get_entities and get_relations never propagate an exception to the
\* caller, whatever the model call does and whatever items it returns.
NoExceptionPropagates == ret.kind # "raised"

\* C6: in typed get_entities, the number of warnings issued equals the
\* number of items skipped for want of a usable entity field.
SkippedEntitiesAreWarned ==
  TypedEntitiesReturned =>
    st.warnings =
      Cardinality({k \in 1..Len(response) : ~HasEntityField(response[k])})

\* C7: every value of a returned type mapping is a member of the
\* caller-supplied allow-list (node_types, edge_types).
TypesDrawnFromAllowList ==
  (pc = "done" /\ ret.kind = "returned" /\ ret.map.some) =>
    \A k \in DOMAIN ret.map.val :
      ret.map.val[k] \in
        Range(IF fn = "get_entities" THEN node_types.val ELSE edge_types.val)

\* C8: on a successful call get_relations returns a None mapping exactly
\* when no allowed predicate types were supplied; otherwise every entry of
\* the mapping is the predicate of a kept relation whose item carries a
\* non-empty predicate type.
EdgeTypeMapOnlyFromKeptRelations ==
  RelationsReturned =>
    /\ ~ret.map.some <=> ~EdgeTypesSupplied
    /\ ret.map.some =>
         \A p \in DOMAIN ret.map.val : EdgeTypeGivers(p) # {}

DroppedRelationGivesNoType ==
  /\ RelationsReturned
  /\ entities = <<"Alice", "Bob">>
  /\ response = <<Alice_knows("Bob", "Social"),
                  RelDict("Alice", "likes", "Carol", "Social")>>
  /\ ret.map.some /\ DOMAIN ret.map.val = {"knows"}

\* C9: in typed get_entities the returned list is exactly the entity-field
\* values of the items that have an entity field, in the order returned,
\* duplicates kept, untyped items included.
EntityListIsEntityFields ==
  TypedEntitiesReturned =>
    LET have == SelectSeq(response, HasEntityField)
    IN /\ ret.list = [k \in 1..Len(have) |-> have[k].entity]
       /\ response = <<EntityDict("Alice", "Person"), EntityDict("XYZ", Absent)>>
            => ret = Returned(<<"Alice", "XYZ">>,
                              Some([e \in {"Alice"} |-> "Person"]))

DuplicateEntityKept ==
  /\ TypedEntitiesReturned
  /\ response = <<EntityDict("Alice", "Person"), EntityDict("Alice", Absent)>>
  /\ ret.list = <<"Alice", "Alice">>

\* C10: when a key occurs in several items, the returned mapping holds the
\* type of the last item that gives it a non-empty type; a later item
\* without a type neither removes nor overwrites the entry.
LastTypeWins ==
  /\ TypedEntitiesReturned =>
       /\ \A e \in DOMAIN ret.map.val :
            /\ EntityTypeGivers(e) # {}
            /\ ret.map.val[e] = response[Last(EntityTypeGivers(e))].type
       /\ \A k \in 1..Len(response) :
            EntityTypeGivers(response[k].entity) # {} =>
              response[k].entity \in DOMAIN ret.map.val
  /\ (RelationsReturned /\ EdgeTypesSupplied) =>
       /\ \A p \in DOMAIN ret.map.val :
            /\ EdgeTypeGivers(p) # {}
            /\ ret.map.val[p] = response[Last(EdgeTypeGivers(p))].predicate_type
       /\ \A k \in 1..Len(response) :
            EdgeTypeGivers(response[k].predicate) # {} =>
              response[k].predicate \in DOMAIN ret.map.val

EntityRetyped ==
  /\ TypedEntitiesReturned
  /\ response = <<EntityDict("Alice", "Person"), EntityDict("Alice", "Robot")>>
  /\ ret.map.val["Alice"] = "Robot"

====
